---- MODULE Spec2Model ----
(***************************************************************************)
(* The AI application-writer of frontend-saas: the ApplicationWriter       *)
(* component (the session state controller), the profile-chat route (the   *)
(* profile collector), the compose route (the draft composer) and the      *)
(* revise route (the revision engine), with the credit ledger they use.    *)
(*                                                                         *)
(* An async handler of the component is one action per segment between two *)
(* awaits: the state it leaves between them (step = 'payment-processing',  *)
(* 'writing-analysis-loading', 'generating') is rendered and observable.   *)
(* pc says which await the component is suspended at.                      *)
(***************************************************************************)
EXTENDS Integers, Sequences, FiniteSets, TLC

VARIABLES
    DEV_MODE,          \* process.env.NODE_ENV === 'development' of the build
    step,              \* useState<Step>
    loading,           \* useState(false)
    error,             \* useState<string | null>: which message is shown
    selectedTier,      \* useState<Tier>('basic')
    creditBalance,     \* useState<number>(0): the component's copy of the balance
    formType,          \* useState(null)
    formTypeLoading,   \* useState(true)
    balanceLoading,    \* the mount effect's fetchCreditBalance has not settled
    writingAnalysis,   \* useState<WritingAnalysis | null>
    selectedTask,      \* useState<number | null>
    companyInfo,       \* useState<any>(null)
    applications,      \* useState<ApplicationResult[]>([])
    selectedStyle,     \* useState<string>('story')
    pc,                \* the await the component's handler is suspended at
    chat,              \* state of the mounted ProfileCollectionChatbot
    fb,                \* state of the mounted ApplicationFeedbackChatbot / revision ledger
    credits,           \* the user's row of the credits table (server)
    txLog,             \* deduction transactions of the account, counted by tier
    orders,            \* tiers of the rows of the orders table written with status 'paid'
    passLog,           \* history: per-style outcomes of the latest composition pass
    other,             \* a second ApplicationWriter of the same account (another tab)
    notices,           \* payment notifications sent by the payment-complete route
    pay,               \* /api/payments/verify: its tables and the calls in progress
    nav                \* per visitor: the page shown and the state of useSession

clientVars == <<step, loading, error, selectedTier, creditBalance, formType,
                formTypeLoading, balanceLoading, writingAnalysis, selectedTask,
                companyInfo, applications, selectedStyle, pc>>
serverVars == <<credits, txLog, orders>>
vars == <<DEV_MODE, clientVars, chat, fb, serverVars, passLog, other, notices, pay, nav>>

(***************************************************************************)
(* Bounds of the model and values standing for the program's data.         *)
(***************************************************************************)
MaxTasks == 2        \* tasks an analysis lists: 0..MaxTasks
MaxInFlight == 2     \* revise requests in flight at once
MaxVisitors == 2     \* browsers visiting the site
MaxVerify == 2       \* calls of /api/payments/verify

Null == "null"                \* JavaScript null
Undefined == "undefined"      \* JavaScript undefined / key not present
InitialBalances == {0, 4900, 15000}   \* credits.balance when the page is opened
DevCredit == 1000000

Tier == {"basic", "standard", "premium"}
Step == {"tier-select", "payment-processing", "writing-analysis-loading",
         "task-selection", "company-info", "generating", "feedback", "completed"}

(***************************************************************************)
(* Pure helpers of ApplicationWriter.                                      *)
(***************************************************************************)
getTierRevisions(tier) ==
    CASE tier = "basic" -> 1
      [] tier = "standard" -> 3
      [] tier = "premium" -> 7

getTierPrice(tier) ==
    CASE tier = "basic" -> 4900
      [] tier = "standard" -> 8000
      [] tier = "premium" -> 15000

getStylesForTierShort(tier) ==
    CASE tier = "basic" -> <<"story">>
      [] tier = "standard" -> <<"story", "data">>
      [] tier = "premium" -> <<"story", "data", "aggressive", "balanced", "strategic">>

getStylesForTier(tier) ==
    CASE tier = "basic" -> <<"story">>
      [] tier = "standard" -> <<"story", "data", "aggressive">>
      [] tier = "premium" -> <<"story", "data", "aggressive", "balanced", "strategic">>

(***************************************************************************)
(* The profile-chat route: POST is a function of the request's             *)
(* collected_data and of what the extraction model answers.                *)
(***************************************************************************)
requiredFields ==
    <<"company_name", "business_field", "founding_year", "main_products", "target_goal">>

RequiredFieldSet == {requiredFields[i] : i \in 1..Len(requiredFields)}

\* A CompanyProfile restricted to its required fields: the optional fields
\* take no part in the completion percentage.  Undefined is a key not present.
Value == {"", "a", "b"}
Profile == [RequiredFieldSet -> Value \cup {Null, Undefined}]
EmptyProfile == [f \in RequiredFieldSet |-> Undefined]

\* Math.round(a / b) for non-negative a and positive b
MathRound(a, b) == (2 * a + b) \div (2 * b)

\* requiredFields.filter(field => p[field] !== undefined && !== null && !== '')
CollectedRequiredFields(p) ==
    {f \in RequiredFieldSet : p[f] # Undefined /\ p[f] # Null /\ p[f] # ""}

CompletionPercentage(p) ==
    MathRound(Cardinality(CollectedRequiredFields(p)) * 100, Len(requiredFields))

\* { ...collectedProfile, ...parsedResponse.extracted_data }
MergeProfile(collectedProfile, extracted) ==
    [f \in RequiredFieldSet |->
        IF extracted[f] # Undefined THEN extracted[f] ELSE collectedProfile[f]]

IsCompleteAtForty(percentage) == percentage >= 40

IsCompleteAt(percentage) == percentage >= 60

\* What the model call can answer: the HTTP call fails, the text does not
\* parse (the catch builds the fallback response), or it parses to an object
\* with extracted_data and next_question_field.
MalformedResponse == [kind |-> "malformed", extracted |-> EmptyProfile, next |-> Null]
HttpError == [kind |-> "http_error", extracted |-> EmptyProfile, next |-> Null]
JsonResponse(extracted, next) == [kind |-> "json", extracted |-> extracted, next |-> next]

ParsedResponse(resp) ==
    IF resp.kind = "json"
    THEN [extracted_data |-> resp.extracted, next_question_field |-> resp.next, raw |-> FALSE]
    ELSE [extracted_data |-> EmptyProfile, next_question_field |-> Null, raw |-> TRUE]

ProfileChatPOSTNoFallback(collectedProfile, resp) ==
    IF resp.kind # "json"
    THEN [status |-> 500, profile_data |-> collectedProfile,
          completion_percentage |-> CompletionPercentage(collectedProfile),
          is_complete |-> FALSE, next_question_field |-> Null, raw |-> FALSE]
    ELSE LET updatedProfile == MergeProfile(collectedProfile, resp.extracted)
             updatedCompletionPercentage == CompletionPercentage(updatedProfile)
             isComplete == IsCompleteAt(updatedCompletionPercentage)
         IN [status |-> 200, profile_data |-> updatedProfile,
             completion_percentage |-> updatedCompletionPercentage,
             is_complete |-> isComplete,
             next_question_field |-> IF isComplete THEN Null ELSE resp.next,
             raw |-> FALSE]

ProfileChatPOST(collectedProfile, resp) ==
    IF resp.kind = "http_error"
    THEN [status |-> 500, profile_data |-> collectedProfile,
          completion_percentage |-> CompletionPercentage(collectedProfile),
          is_complete |-> FALSE, next_question_field |-> Null, raw |-> FALSE]
    ELSE LET parsed == ParsedResponse(resp)
             updatedProfile == MergeProfile(collectedProfile, parsed.extracted_data)
             updatedCompletionPercentage == CompletionPercentage(updatedProfile)
             isComplete == IsCompleteAt(updatedCompletionPercentage)
         IN [status |-> 200, profile_data |-> updatedProfile,
             completion_percentage |-> updatedCompletionPercentage,
             is_complete |-> isComplete,
             next_question_field |->
                 IF isComplete THEN Null ELSE parsed.next_question_field,
             raw |-> parsed.raw]

(***************************************************************************)
(* State after construction (the useState initial values) and the data of  *)
(* the pieces mounted later.                                               *)
(***************************************************************************)
AllStyles == {"story", "data", "aggressive", "balanced", "strategic"}

Idle == [op |-> "idle", i |-> 0, gen |-> <<>>]

\* ProfileCollectionChatbot as mounted: nothing collected yet
ChatInit == [collected |-> EmptyProfile, pct |-> 0, complete |-> FALSE,
             next |-> Null, status |-> 0, raw |-> FALSE]

\* no feedback view mounted, no revision requested
FeedbackInit == [remaining |-> 0, inFlight |-> [s \in AllStyles |-> 0],
                 done |-> 0, last |-> "none"]

\* null in writingAnalysis, selectedTask and companyInfo
NoAnalysis == [present |-> FALSE, tasks |-> 0]
NoTask == 0
NoCompanyInfo == [present |-> FALSE, profile |-> EmptyProfile]

NoPass == [ok |-> {}, failed |-> {}, ended |-> FALSE]

OtherInit == [step |-> "tier-select", tier |-> "basic", creditBalance |-> 0,
              loaded |-> FALSE, error |-> "none"]

NoTransactions == [t \in Tier |-> 0]

(***************************************************************************)
(* Pages behind the login: /mypage and /charge.                            *)
(***************************************************************************)
Visitors == 1..MaxVisitors
Pages == {"/", "/mypage", "/charge", "/login"}
ProtectedPages == {"/mypage", "/charge"}

\* a browser that has just opened the home page without a session
NavInit == [v \in Visitors |->
               [loggedIn |-> FALSE, path |-> "/", status |-> "loading",
                callbackUrl |-> Null]]

(***************************************************************************)
(* /api/payments/verify: values of its tables and of one call.             *)
(***************************************************************************)
PaymentIds == {"pay_1", "pay_2"}     \* paymentId of the body
TotalCredits == {5000, 10000}        \* customData.totalCredit of the body
PortOneResults == {"PAID", "UNPAID", "ERROR"}
VerifyCalls == 1..MaxVerify

\* no row of the credits table for the user
NoCreditRow == [present |-> FALSE, balance |-> 0, totalCharged |-> 0]

\* a call that has not been made
IdleVerify == [at |-> "idle", paymentId |-> Null, totalCredit |-> 0,
               userCredit |-> NoCreditRow, wrote |-> FALSE, status |-> 0]

\* the row of a user who has charged before
ExistingCreditRow == [present |-> TRUE, balance |-> 5000, totalCharged |-> 5000]

\* the tables before any call; opening keeps the credits row of that moment
PayInit == [payments |-> {}, credit |-> NoCreditRow, opening |-> NoCreditRow,
            transactions |-> {}, req |-> [r \in VerifyCalls |-> IdleVerify]]


InitDrafting ==
    /\ DEV_MODE \in BOOLEAN
    /\ step = "tier-select"
    /\ loading = FALSE
    /\ error = "none"
    /\ selectedTier = "basic"
    /\ creditBalance = 0
    /\ formType = Null
    /\ formTypeLoading = TRUE
    /\ balanceLoading = TRUE
    /\ writingAnalysis = NoAnalysis
    /\ selectedTask = NoTask
    /\ companyInfo = NoCompanyInfo
    /\ applications = <<>>
    /\ selectedStyle = "story"
    /\ pc = Idle
    /\ chat = ChatInit
    /\ fb = FeedbackInit
    \* a development build neither reads nor writes the ledger: its account
    \* is taken to be empty
    /\ \E b \in (IF DEV_MODE THEN {0} ELSE InitialBalances) :
           credits = [balance |-> b, totalCharged |-> b, totalUsed |-> 0]
    /\ txLog = NoTransactions
    /\ orders = {}
    /\ passLog = NoPass
    /\ other = OtherInit
    /\ notices = {}
    /\ nav = NavInit

Init == InitDrafting /\ pay = PayInit

(***************************************************************************)
(* The credit ledger behind /api/revision-credits/balance and /deduct.     *)
(***************************************************************************)
DeductUnchecked(c, amount) ==
    [ok |-> TRUE,
     credits |-> [c EXCEPT !.balance = c.balance - amount,
                           !.totalUsed = c.totalUsed + amount]]

\* chargeForTier: fails with InsufficientCredit if balance < price, otherwise
\* decrements the balance, in one step of the ledger
Deduct(c, amount) ==
    IF c.balance >= amount
    THEN [ok |-> TRUE,
          credits |-> [c EXCEPT !.balance = c.balance - amount,
                                !.totalUsed = c.totalUsed + amount]]
    ELSE [ok |-> FALSE, credits |-> c]

(***************************************************************************)
(* Mount effect.                                                           *)
(***************************************************************************)
\* useEffect, DEV_MODE branch: setCreditBalance(1000000)
useEffectDevCredit ==
    /\ DEV_MODE
    /\ balanceLoading
    /\ creditBalance' = DevCredit
    /\ balanceLoading' = FALSE
    /\ UNCHANGED <<DEV_MODE, pay, nav, notices, step, loading, error, selectedTier, formType,
                   formTypeLoading, writingAnalysis, selectedTask, companyInfo,
                   applications, selectedStyle, pc, chat, fb, serverVars,
                   passLog, other>>

\* fetchCreditBalance: data.balance || 0, and 0 when the call fails
fetchCreditBalance(ok) ==
    /\ ~DEV_MODE
    /\ balanceLoading
    /\ creditBalance' = IF ok THEN credits.balance ELSE 0
    /\ balanceLoading' = FALSE
    /\ UNCHANGED <<DEV_MODE, pay, nav, notices, step, loading, error, selectedTier, formType,
                   formTypeLoading, writingAnalysis, selectedTask, companyInfo,
                   applications, selectedStyle, pc, chat, fb, serverVars,
                   passLog, other>>

\* fetchFormType: data.form_type || 'evaluation_based', and 'evaluation_based'
\* when the call fails.  'business_plan' takes the same branches as
\* 'evaluation_based' everywhere but in the banner text and is left out.
FormTypeResults == {"simple_registration", "evaluation_based", Undefined}

fetchFormType(ok, form_type) ==
    /\ formTypeLoading
    /\ formType' = IF ok /\ form_type # Undefined THEN form_type ELSE "evaluation_based"
    /\ formTypeLoading' = FALSE
    /\ UNCHANGED <<DEV_MODE, pay, nav, notices, step, loading, error, selectedTier, creditBalance,
                   balanceLoading, writingAnalysis, selectedTask, companyInfo,
                   applications, selectedStyle, pc, chat, fb, serverVars,
                   passLog, other>>

(***************************************************************************)
(* Step 1: tier selection and payment by credits.                          *)
(***************************************************************************)
\* the tier cards and the payment button are rendered
TierCardsShown ==
    /\ step = "tier-select"
    /\ ~formTypeLoading
    /\ formType # Null
    /\ formType # "simple_registration"

setSelectedTier(tier) ==
    /\ TierCardsShown
    /\ selectedTier' = tier
    /\ UNCHANGED <<DEV_MODE, pay, nav, notices, step, loading, error, creditBalance, formType,
                   formTypeLoading, balanceLoading, writingAnalysis, selectedTask,
                   companyInfo, applications, selectedStyle, pc, chat, fb,
                   serverVars, passLog, other>>

\* the button is disabled={loading || creditBalance < getTierPrice(selectedTier)}
PayButtonEnabled ==
    /\ TierCardsShown
    /\ ~loading
    /\ creditBalance >= getTierPrice(selectedTier)

\* handleCreditPayment up to its first await.  In DEV_MODE there is no await
\* before fetchWritingAnalysis(), whose setStep is batched with this one.
handleCreditPayment ==
    /\ PayButtonEnabled
    /\ IF creditBalance < getTierPrice(selectedTier)
       THEN /\ error' = "insufficient"
            /\ UNCHANGED <<step, loading, pc>>
       ELSE /\ error' = "none"
            /\ loading' = TRUE
            /\ IF DEV_MODE
               THEN /\ step' = "writing-analysis-loading"
                    /\ pc' = [Idle EXCEPT !.op = "analysis"]
               ELSE /\ step' = "payment-processing"
                    /\ pc' = [Idle EXCEPT !.op = "deduct"]
    /\ UNCHANGED <<DEV_MODE, pay, nav, notices, selectedTier, creditBalance, formType,
                   formTypeLoading, balanceLoading, writingAnalysis, selectedTask,
                   companyInfo, applications, selectedStyle, chat, fb,
                   serverVars, passLog, other>>

deductResponseUnchecked(failed) ==
    /\ pc.op = "deduct"
    /\ LET r == Deduct(credits, getTierPrice(selectedTier))
       IN /\ credits' = r.credits
          /\ txLog' = IF r.ok THEN [txLog EXCEPT ![selectedTier] = @ + 1] ELSE txLog
          /\ step' = "writing-analysis-loading"
          /\ error' = "none"
          /\ pc' = [Idle EXCEPT !.op = "analysis"]
          /\ UNCHANGED loading
    /\ UNCHANGED <<DEV_MODE, pay, nav, notices, selectedTier, creditBalance, formType,
                   formTypeLoading, balanceLoading, writingAnalysis, selectedTask,
                   companyInfo, applications, selectedStyle, chat, fb, orders,
                   passLog, other>>

\* the answer of /api/revision-credits/deduct: ok, then fetchWritingAnalysis()
\* up to its await; not ok (InsufficientCredit, or any other failure of the
\* call that leaves the ledger alone), the catch of handleCreditPayment
deductResponse(failed) ==
    /\ pc.op = "deduct"
    /\ LET r == Deduct(credits, getTierPrice(selectedTier))
       IN IF r.ok /\ ~failed
          THEN /\ credits' = r.credits
               /\ txLog' = [txLog EXCEPT ![selectedTier] = @ + 1]
               /\ step' = "writing-analysis-loading"
               /\ error' = "none"
               /\ pc' = [Idle EXCEPT !.op = "analysis"]
               /\ UNCHANGED loading
          ELSE /\ error' = "payment"
               /\ step' = "tier-select"
               /\ loading' = FALSE
               /\ pc' = Idle
               /\ UNCHANGED <<credits, txLog>>
    /\ UNCHANGED <<DEV_MODE, pay, nav, notices, selectedTier, creditBalance, formType,
                   formTypeLoading, balanceLoading, writingAnalysis, selectedTask,
                   companyInfo, applications, selectedStyle, chat, fb, orders,
                   passLog, other>>

(***************************************************************************)
(* Step 3: writing analysis.                                               *)
(***************************************************************************)
\* data.writing_analysis of an ok answer: absent, or an analysis with n tasks
AnalysisResults == {NoAnalysis} \cup {[present |-> TRUE, tasks |-> n] : n \in 0..MaxTasks}

\* the answer of /api/writing-analysis, in fetchWritingAnalysis
writingAnalysisResponse(ok, writing_analysis) ==
    /\ pc.op = "analysis"
    /\ IF ok
       THEN /\ writingAnalysis' = writing_analysis
            /\ step' = "task-selection"
            /\ UNCHANGED error
       ELSE /\ error' = "analysis"
            /\ step' = "tier-select"
            /\ UNCHANGED writingAnalysis
    /\ loading' = FALSE
    /\ pc' = Idle
    /\ UNCHANGED <<DEV_MODE, pay, nav, notices, selectedTier, creditBalance, formType,
                   formTypeLoading, balanceLoading, selectedTask, companyInfo,
                   applications, selectedStyle, chat, fb, serverVars, passLog,
                   other>>

(***************************************************************************)
(* Step 4: task selection (TaskSelectionChatbot's callbacks).              *)
(***************************************************************************)
TaskSelectionShown == step = "task-selection" /\ writingAnalysis.present

\* what TaskSelectionChatbot can hand to onTaskSelected: one of the tasks
\* listed, null when none is listed
TaskChoices(wa) == IF wa.tasks = 0 THEN {NoTask} ELSE 1..wa.tasks

handleTaskSelected(taskNumber) ==
    /\ TaskSelectionShown
    /\ selectedTask' = taskNumber
    /\ step' = "company-info"
    /\ chat' = ChatInit
    /\ UNCHANGED <<DEV_MODE, pay, nav, notices, loading, error, selectedTier, creditBalance, formType,
                   formTypeLoading, balanceLoading, writingAnalysis, companyInfo,
                   applications, selectedStyle, pc, fb, serverVars, passLog,
                   other>>

\* onClose={() => setStep('tier-select')}
closeTaskSelection ==
    /\ TaskSelectionShown
    /\ step' = "tier-select"
    /\ UNCHANGED <<DEV_MODE, pay, nav, notices, loading, error, selectedTier, creditBalance, formType,
                   formTypeLoading, balanceLoading, writingAnalysis, selectedTask,
                   companyInfo, applications, selectedStyle, pc, chat, fb,
                   serverVars, passLog, other>>

(***************************************************************************)
(* Step 5: profile collection.  ProfileCollectionChatbot keeps the profile *)
(* the route returned and sends it back as collected_data with the next    *)
(* message; it calls onComplete with it once the route says is_complete.   *)
(***************************************************************************)
ProfileCollectionShown == step = "company-info" /\ writingAnalysis.present

\* one message of the user: the route's answer becomes the chatbot's state
ChatAfter(c, resp) ==
    LET r == ProfileChatPOST(c.collected, resp)
    IN IF r.status = 200
       THEN [collected |-> r.profile_data, pct |-> r.completion_percentage,
             complete |-> r.is_complete, next |-> r.next_question_field,
             status |-> 200, raw |-> r.raw]
       ELSE [c EXCEPT !.status = r.status]

profileChatTurn(resp) ==
    /\ ProfileCollectionShown
    /\ ~chat.complete
    /\ chat' = ChatAfter(chat, resp)
    /\ UNCHANGED <<DEV_MODE, pay, nav, notices, clientVars, fb, serverVars, passLog, other>>

\* onClose={() => setStep('task-selection')}
closeProfileCollection ==
    /\ ProfileCollectionShown
    /\ step' = "task-selection"
    /\ chat' = ChatInit
    /\ UNCHANGED <<DEV_MODE, pay, nav, notices, loading, error, selectedTier, creditBalance, formType,
                   formTypeLoading, balanceLoading, writingAnalysis, selectedTask,
                   companyInfo, applications, selectedStyle, pc, fb, serverVars,
                   passLog, other>>

\* handleCompanyInfoSubmit(info) up to the first await of its loop
handleCompanyInfoSubmit(info) ==
    /\ companyInfo' = [present |-> TRUE, profile |-> info]
    /\ step' = "generating"
    /\ loading' = TRUE
    /\ error' = "none"
    /\ pc' = [op |-> "compose", i |-> 1, gen |-> <<>>]
    /\ passLog' = NoPass
    /\ chat' = ChatInit
    /\ UNCHANGED <<DEV_MODE, pay, nav, notices, selectedTier, creditBalance, formType, formTypeLoading,
                   balanceLoading, writingAnalysis, selectedTask, applications,
                   selectedStyle, fb, serverVars, other>>

\* onComplete={handleCompanyInfoSubmit}
completeProfile ==
    /\ ProfileCollectionShown
    /\ chat.complete
    /\ handleCompanyInfoSubmit(chat.collected)

(***************************************************************************)
(* Step 6: composition.  The compose route, then the loop of               *)
(* handleCompanyInfoSubmit around it.                                      *)
(***************************************************************************)
\* The route's checks before it writes the order: test_mode bypasses auth();
\* nothing reads the ledger or the payment of the caller.
ComposeAdmits(test_mode, loggedIn) == test_mode \/ loggedIn

\* outcome: "rejected" (401/404, company analysis failed: before the order is
\* written), "failed" (compose-sync not ok), "ok"
ComposeOrders(o, tier, test_mode, loggedIn, outcome) ==
    IF ComposeAdmits(test_mode, loggedIn) /\ outcome # "rejected"
    THEN o \cup {tier}
    ELSE o

ComposeOk(test_mode, loggedIn, outcome) ==
    ComposeAdmits(test_mode, loggedIn) /\ outcome = "ok"

testMode == FALSE     \* the component's prop, by default

\* the styles the route looks up in data.documents, in this order
stylePriority(requestedStyle) ==
    <<requestedStyle, "upgraded", "professional", "data", "story", "balanced",
      "conservative", "aggressive">>

\* the style whose document fills application_content.sections, null when
\* no document of the priority list has sections; documents: the keys of
\* data.documents holding a document with sections
applicationContent(requestedStyle, documents) ==
    LET pr == stylePriority(requestedStyle)
        found == {i \in 1..Len(pr) : pr[i] \in documents}
    IN IF found = {} THEN Null
       ELSE pr[CHOOSE i \in found : \A k \in found : i <= k]

NewDraft(style, i, documents) ==
    [style |-> style,
     content |-> [doc |-> applicationContent(style, documents), revised |-> FALSE],
     styleRank |-> i, isRecommended |-> (i = 1)]

\* the options of the fetch of /api/application-writer/compose in the loop
\* of handleCompanyInfoSubmit: no signal, so the await ends only with the
\* route's answer or a network error
ComposeFetchOptions == {"method", "headers", "body"}

\* the options of the route's fetch of the backend's compose-sync
ComposeSyncFetchOptions == {"method", "headers", "body"}

\* one answer of /api/application-writer/compose inside the loop
composeResponse(outcome, documents) ==
    /\ pc.op = "compose"
    /\ LET styles == getStylesForTier(selectedTier)
           style == styles[pc.i]
           gen == Append(pc.gen, NewDraft(style, pc.i, documents))
       IN /\ orders' = ComposeOrders(orders, selectedTier, testMode, TRUE, outcome)
          /\ IF ComposeOk(testMode, TRUE, outcome)
             THEN IF pc.i < Len(styles)
                  THEN /\ pc' = [pc EXCEPT !.i = pc.i + 1, !.gen = gen]
                       /\ passLog' = [passLog EXCEPT !.ok = passLog.ok \cup {style}]
                       /\ UNCHANGED <<step, loading, error, applications, selectedStyle, chat>>
                  ELSE \* setApplications, setSelectedStyle, await saveApplicationsToDb
                       /\ applications' = gen
                       /\ selectedStyle' = gen[1].style
                       /\ pc' = [Idle EXCEPT !.op = "save"]
                       /\ passLog' = [passLog EXCEPT !.ok = passLog.ok \cup {style},
                                                     !.ended = TRUE]
                       /\ UNCHANGED <<step, loading, error, chat>>
             ELSE \* throw new Error(...) and the catch
                  /\ error' = "compose"
                  /\ step' = "company-info"
                  /\ loading' = FALSE
                  /\ pc' = Idle
                  /\ chat' = ChatInit
                  /\ passLog' = [passLog EXCEPT !.failed = passLog.failed \cup {style},
                                                !.ended = TRUE]
                  /\ UNCHANGED <<applications, selectedStyle>>
    /\ UNCHANGED <<DEV_MODE, pay, nav, notices, selectedTier, creditBalance, formType, formTypeLoading,
                   balanceLoading, writingAnalysis, selectedTask, companyInfo, fb,
                   credits, txLog, other>>

\* saveApplicationsToDb settled (it swallows every failure), then
\* setStep('feedback'); the feedback view mounts with
\* remainingRevisions={getTierRevisions(selectedTier)}
saveApplicationsToDb ==
    /\ pc.op = "save"
    /\ step' = "feedback"
    /\ loading' = FALSE
    /\ pc' = Idle
    /\ fb' = [FeedbackInit EXCEPT !.remaining = getTierRevisions(selectedTier)]
    /\ UNCHANGED <<DEV_MODE, pay, nav, notices, error, selectedTier, creditBalance, formType,
                   formTypeLoading, balanceLoading, writingAnalysis, selectedTask,
                   companyInfo, applications, selectedStyle, chat, serverVars,
                   passLog, other>>

\* the route called by any HTTP client, outside the component
composeRequest(tier, test_mode, loggedIn, outcome) ==
    /\ orders' = ComposeOrders(orders, tier, test_mode, loggedIn, outcome)
    /\ orders' # orders
    /\ UNCHANGED <<DEV_MODE, pay, nav, notices, clientVars, chat, fb, credits, txLog, passLog, other>>

(***************************************************************************)
(* Step 7: feedback and revisions.                                         *)
(***************************************************************************)
StylesOf(apps) == {apps[i].style : i \in 1..Len(apps)}

FeedbackShownWhenCompleted ==
    step \in {"feedback", "completed"} /\ Len(applications) > 0

\* step === 'feedback' && applications.length > 0
FeedbackShown == step = "feedback" /\ Len(applications) > 0

\* getCurrentApplication() finds one: ApplicationFeedbackChatbot is rendered
FeedbackChatShown == FeedbackShown /\ selectedStyle \in StylesOf(applications)

\* handleStyleSelect, from the StyleResultsTabs of 'feedback' and 'completed'
handleStyleSelect(style) ==
    /\ FeedbackShown \/ (step = "completed" /\ Len(applications) > 0)
    /\ style \in StylesOf(applications)
    /\ selectedStyle' = style
    /\ UNCHANGED <<DEV_MODE, pay, nav, notices, step, loading, error, selectedTier, creditBalance,
                   formType, formTypeLoading, balanceLoading, writingAnalysis,
                   selectedTask, companyInfo, applications, pc, chat, fb,
                   serverVars, passLog, other>>

\* onClose={() => setStep('generating')}
closeFeedback ==
    /\ FeedbackChatShown
    /\ step' = "generating"
    /\ UNCHANGED <<DEV_MODE, pay, nav, notices, loading, error, selectedTier, creditBalance, formType,
                   formTypeLoading, balanceLoading, writingAnalysis, selectedTask,
                   companyInfo, applications, selectedStyle, pc, chat, fb,
                   serverVars, passLog, other>>

handleFinalize ==
    /\ FeedbackChatShown
    /\ step' = "completed"
    /\ UNCHANGED <<DEV_MODE, pay, nav, notices, loading, error, selectedTier, creditBalance, formType,
                   formTypeLoading, balanceLoading, writingAnalysis, selectedTask,
                   companyInfo, applications, selectedStyle, pc, chat, fb,
                   serverVars, passLog, other>>

ConsumeRevisionUnchecked(remaining) ==
    [ok |-> TRUE, remaining |-> remaining - 1]

ConsumeRevisionFree(remaining) ==
    IF remaining = 0
    THEN [ok |-> FALSE, remaining |-> remaining]
    ELSE [ok |-> TRUE, remaining |-> remaining]

ConsumeRevisionLenient(remaining) ==
    IF remaining = 0
    THEN [ok |-> TRUE, remaining |-> remaining]
    ELSE [ok |-> TRUE, remaining |-> remaining - 1]

\* consumeRevision: fails with NoRevisionsRemaining on a zero allotment,
\* otherwise decrements it by one, in one step of the ledger
ConsumeRevision(remaining) ==
    IF remaining = 0
    THEN [ok |-> FALSE, remaining |-> remaining]
    ELSE [ok |-> TRUE, remaining |-> remaining - 1]

\* a revision of the selected draft is requested: the allotment is consumed
\* before the revise route is called
RECURSIVE SumOver(_, _)
SumOver(f, S) ==
    IF S = {} THEN 0
    ELSE LET x == CHOOSE y \in S : TRUE IN f[x] + SumOver(f, S \ {x})

InFlight(f) == SumOver(f.inFlight, AllStyles)

requestRevision(concurrency) ==
    /\ FeedbackChatShown
    /\ InFlight(fb) < concurrency
    /\ LET r == ConsumeRevision(fb.remaining)
       IN IF r.ok
          THEN fb' = [fb EXCEPT !.remaining = r.remaining,
                                !.inFlight[selectedStyle] = @ + 1,
                                !.last = "none"]
          ELSE fb' = [fb EXCEPT !.last = "NoRevisionsRemaining"]
    /\ UNCHANGED <<DEV_MODE, pay, nav, notices, clientVars, chat, serverVars, passLog, other>>

handleRevisionCompleteAll(apps, style, newContent) ==
    [i \in 1..Len(apps) |-> [apps[i] EXCEPT !.content = newContent]]

\* applications.map(app => app.style === selectedStyle ? {...app, content} : app),
\* selectedStyle being the one of the render the request was made in
handleRevisionComplete(apps, style, newContent) ==
    [i \in 1..Len(apps) |->
        IF apps[i].style = style THEN [apps[i] EXCEPT !.content = newContent]
        ELSE apps[i]]

\* data.revised_content: the draft of the style, rewritten
RevisedContent(style) == [doc |-> style, revised |-> TRUE]

RefundRevisionNone(remaining) == remaining

\* the compensating transaction of a failed attempt: its unit is given back
RefundRevision(remaining) == remaining + 1

\* the revise route's answer: the backend's answer passed through (ok: the
\* revised content; not ok: its status and error text)
reviseResponse(style, ok) ==
    /\ FeedbackChatShown      \* the answer reaches the chatbot while it is mounted
    /\ fb.inFlight[style] > 0
    /\ IF ok
       THEN /\ applications' =
                   handleRevisionComplete(applications, style, RevisedContent(style))
            /\ fb' = [fb EXCEPT !.inFlight[style] = @ - 1,
                                !.done = fb.done + 1]
       ELSE \* the failed attempt's unit is refunded
            /\ fb' = [fb EXCEPT !.inFlight[style] = @ - 1,
                                !.remaining = RefundRevision(fb.remaining),
                                !.last = "RevisionFailed"]
            /\ UNCHANGED applications
    /\ UNCHANGED <<DEV_MODE, pay, nav, notices, step, loading, error, selectedTier, creditBalance,
                   formType, formTypeLoading, balanceLoading, writingAnalysis,
                   selectedTask, companyInfo, selectedStyle, pc, chat,
                   serverVars, passLog, other>>

(***************************************************************************)
(* The session: everything the component and its routes can do, the        *)
(* extraction model answering the question asked or nothing useful.        *)
(***************************************************************************)
FirstMissing(p) ==
    LET missing == {i \in 1..Len(requiredFields) :
                       requiredFields[i] \notin CollectedRequiredFields(p)}
    IN IF missing = {} THEN Null
       ELSE requiredFields[CHOOSE i \in missing : \A j \in missing : i <= j]

Extraction(f, v) == [g \in RequiredFieldSet |-> IF g = f THEN v ELSE Undefined]

\* answers of the model in a session: the answer to the question asked is
\* extracted, or an empty string for a field, or nothing; or the text is no
\* JSON; or the call fails
SessionResponses(p) ==
    {MalformedResponse, HttpError, JsonResponse(EmptyProfile, FirstMissing(p))}
    \cup (IF FirstMissing(p) = Null THEN {}
          ELSE {JsonResponse(Extraction(FirstMissing(p), "a"), Null)})
    \cup {JsonResponse(Extraction(f, ""), Null) : f \in {requiredFields[1]}}

\* a backend whose answer holds the document of the requested style only
RequestedDocuments ==
    IF pc.op = "compose" THEN {getStylesForTier(selectedTier)[pc.i]} ELSE {}

Next ==
    \/ useEffectDevCredit
    \/ \E ok \in BOOLEAN : fetchCreditBalance(ok)
    \/ \E ok \in BOOLEAN, ft \in FormTypeResults : fetchFormType(ok, ft)
    \/ \E t \in Tier : setSelectedTier(t)
    \/ handleCreditPayment
    \/ \E failed \in BOOLEAN : deductResponse(failed)
    \/ \E ok \in BOOLEAN, wa \in AnalysisResults : writingAnalysisResponse(ok, wa)
    \/ \E n \in TaskChoices(writingAnalysis) : handleTaskSelected(n)
    \/ closeTaskSelection
    \/ \E resp \in SessionResponses(chat.collected) : profileChatTurn(resp)
    \/ closeProfileCollection
    \/ completeProfile
    \/ \E outcome \in {"ok", "rejected", "failed"} : composeResponse(outcome, RequestedDocuments)
    \/ saveApplicationsToDb
    \/ \E s \in AllStyles : handleStyleSelect(s)
    \/ closeFeedback
    \/ handleFinalize
    \/ requestRevision(1)
    \/ \E s \in AllStyles, ok \in BOOLEAN : reviseResponse(s, ok)

Spec == Init /\ [][Next]_vars

(***************************************************************************)
(* The profile collector alone: a session whose profile collection has     *)
(* just opened, the extraction model answering anything it can answer.     *)
(***************************************************************************)
MaxExtract == 1      \* fields one answer of the model extracts

Extractions ==
    {e \in [RequiredFieldSet -> Value \cup {Undefined}] :
        Cardinality({f \in RequiredFieldSet : e[f] # Undefined}) <= MaxExtract}

\* next_question_field is handed through unread: three values stand for all
NextQuestionFields == {Null, requiredFields[1], requiredFields[Len(requiredFields)]}

AllResponses ==
    {MalformedResponse, HttpError}
    \cup {JsonResponse(e, n) : e \in Extractions, n \in NextQuestionFields}

\* a paid session of tier t at the moment its ProfileCollectionChatbot mounts
ProfileCollectionOpens(t) ==
    /\ DEV_MODE = FALSE
    /\ step = "company-info"
    /\ loading = FALSE
    /\ error = "none"
    /\ selectedTier = t
    /\ creditBalance = 15000
    /\ formType = "evaluation_based"
    /\ formTypeLoading = FALSE
    /\ balanceLoading = FALSE
    /\ writingAnalysis = [present |-> TRUE, tasks |-> 0]
    /\ selectedTask = NoTask
    /\ companyInfo = NoCompanyInfo
    /\ applications = <<>>
    /\ selectedStyle = "story"
    /\ pc = Idle
    /\ chat = ChatInit
    /\ fb = FeedbackInit
    /\ credits = [balance |-> 15000 - getTierPrice(t), totalCharged |-> 15000,
                  totalUsed |-> getTierPrice(t)]
    /\ txLog = [NoTransactions EXCEPT ![t] = 1]
    /\ orders = {}
    /\ passLog = NoPass
    /\ other = OtherInit
    /\ notices = {}
    /\ nav = NavInit
    /\ pay = PayInit

InitChat == \E t \in Tier : ProfileCollectionOpens(t)

NextChat ==
    \/ \E resp \in AllResponses : profileChatTurn(resp)
    \/ closeProfileCollection
    \/ \E n \in TaskChoices(writingAnalysis) : handleTaskSelected(n)
    \/ completeProfile

SpecChat == InitChat /\ [][NextChat]_vars

(***************************************************************************)
(* One account, several clients: the session, a second ApplicationWriter   *)
(* of the same account in another tab, a client calling the compose route  *)
(* by itself, and revisions requested without waiting for one another.     *)
(***************************************************************************)
\* fetchCreditBalance of the second tab
otherFetchCreditBalance(ok) ==
    /\ ~other.loaded
    /\ other' = [other EXCEPT !.creditBalance = IF ok THEN credits.balance ELSE 0,
                              !.loaded = TRUE]
    /\ UNCHANGED <<DEV_MODE, pay, nav, notices, clientVars, chat, fb, serverVars, passLog>>

otherSetSelectedTier(tier) ==
    /\ other.step = "tier-select"
    /\ other.tier # tier
    /\ other' = [other EXCEPT !.tier = tier]
    /\ UNCHANGED <<DEV_MODE, pay, nav, notices, clientVars, chat, fb, serverVars, passLog>>

\* handleCreditPayment of the second tab, up to the await of the deduction
otherHandleCreditPayment ==
    /\ other.step = "tier-select"
    /\ other.loaded
    /\ other.creditBalance >= getTierPrice(other.tier)
    /\ other' = [other EXCEPT !.step = "payment-processing", !.error = "none"]
    /\ UNCHANGED <<DEV_MODE, pay, nav, notices, clientVars, chat, fb, serverVars, passLog>>

\* the answer of /api/revision-credits/deduct to the second tab
otherDeductResponse ==
    /\ other.step = "payment-processing"
    /\ LET r == Deduct(credits, getTierPrice(other.tier))
       IN IF r.ok
          THEN /\ credits' = r.credits
               /\ txLog' = [txLog EXCEPT ![other.tier] = @ + 1]
               /\ other' = [other EXCEPT !.step = "writing-analysis-loading"]
          ELSE /\ other' = [other EXCEPT !.step = "tier-select", !.error = "payment"]
               /\ UNCHANGED <<credits, txLog>>
    /\ UNCHANGED <<DEV_MODE, pay, nav, notices, clientVars, chat, fb, orders, passLog>>

(***************************************************************************)
(* The payment-complete route: a tier paid through the payment gateway.    *)
(***************************************************************************)
\* tierCreditsMap of the payment notification
tierCreditsMap(tier) ==
    CASE tier = "basic" -> 2
      [] tier = "standard" -> 3
      [] tier = "premium" -> 4

\* POST /api/application-writer/payment-complete of a logged-in user with all
\* parameters: the backend is told (withRetry), and when it accepted, a user
\* who enabled notifications and has a phone number is sent the notification
paymentComplete(tier, backendOk, notificationEnabled) ==
    /\ backendOk
    /\ notificationEnabled
    /\ notices' = notices \cup {[tier |-> tier, credits |-> tierCreditsMap(tier)]}
    /\ notices' # notices
    /\ UNCHANGED <<DEV_MODE, pay, nav, clientVars, chat, fb, serverVars, passLog, other>>

\* the tiers the session picks from here, and the one a direct caller names
ClientTiers == {"basic", "standard"}
DirectTier == "premium"

\* the model answers the question asked
AnswerAsked(p) == JsonResponse(Extraction(FirstMissing(p), "a"), Null)

InitClients == Init /\ ~DEV_MODE

NextClients ==
    \/ \E ok \in BOOLEAN : fetchCreditBalance(ok)
    \/ fetchFormType(TRUE, "evaluation_based")
    \/ \E t \in ClientTiers : setSelectedTier(t)
    \/ handleCreditPayment
    \/ deductResponse(FALSE)
    \/ writingAnalysisResponse(TRUE, [present |-> TRUE, tasks |-> 0])
    \/ handleTaskSelected(NoTask)
    \/ profileChatTurn(AnswerAsked(chat.collected))
    \/ completeProfile
    \/ \E outcome \in {"ok", "failed"} : composeResponse(outcome, RequestedDocuments)
    \/ saveApplicationsToDb
    \/ \E s \in AllStyles : handleStyleSelect(s)
    \/ requestRevision(MaxInFlight)
    \/ \E s \in AllStyles, ok \in BOOLEAN : reviseResponse(s, ok)
    \/ \E ok \in BOOLEAN : otherFetchCreditBalance(ok)
    \/ \E t \in Tier : otherSetSelectedTier(t)
    \/ otherHandleCreditPayment
    \/ otherDeductResponse
    \/ \E tm \in BOOLEAN, li \in BOOLEAN, outcome \in {"ok", "rejected", "failed"} :
           composeRequest(DirectTier, tm, li, outcome)
    \/ \E t \in Tier, ok \in BOOLEAN, en \in BOOLEAN : paymentComplete(t, ok, en)

SpecClients == InitClients /\ [][NextClients]_vars

(***************************************************************************)
(* /api/payments/verify.  One call is a sequence of awaits on the database *)
(* with no transaction around them: calls interleave between the awaits,   *)
(* and a statement that throws ends the call in the catch with status 500  *)
(* and leaves what the earlier statements wrote.                           *)
(***************************************************************************)
InsertPaymentNoUnique(rows, paymentId, id) ==
    [ok |-> TRUE, rows |-> rows \cup {[paymentId |-> paymentId, id |-> id]}]

\* db.insert(payments) under payments_payment_id_unique
InsertPayment(rows, paymentId, id) ==
    IF \E row \in rows : row.paymentId = paymentId
    THEN [ok |-> FALSE, rows |-> rows]
    ELSE [ok |-> TRUE, rows |-> rows \cup {[paymentId |-> paymentId, id |-> id]}]

VerifyEnds(r, status) ==
    [pay.req EXCEPT ![r].at = "done", ![r].status = status]

\* the call up to the answer of PortOne
verifyRequest(r, paymentId, totalCredit, portone) ==
    /\ pay.req[r].at = "idle"
    /\ \A q \in VerifyCalls : q < r => pay.req[q].at # "idle"
    /\ LET call == [IdleVerify EXCEPT !.paymentId = paymentId,
                                      !.totalCredit = totalCredit]
       IN pay' = [pay EXCEPT !.req[r] =
                     CASE portone = "ERROR" -> [call EXCEPT !.at = "done", !.status = 500]
                       [] portone = "UNPAID" -> [call EXCEPT !.at = "done", !.status = 400]
                       [] OTHER -> [call EXCEPT !.at = "insert-payment"]]
    /\ UNCHANGED <<DEV_MODE, clientVars, chat, fb, serverVars, passLog, other, notices, nav>>

\* await db.insert(payments).values({...}).returning()
verifyInsertPayment(r, dbOk) ==
    /\ pay.req[r].at = "insert-payment"
    /\ LET res == InsertPayment(pay.payments, pay.req[r].paymentId, r)
       IN IF dbOk /\ res.ok
          THEN pay' = [pay EXCEPT !.payments = res.rows,
                                  !.req[r].at = "select-credits"]
          ELSE pay' = [pay EXCEPT !.req = VerifyEnds(r, 500)]
    /\ UNCHANGED <<DEV_MODE, clientVars, chat, fb, serverVars, passLog, other, notices, nav>>

\* let [userCredit] = await db.select().from(credits).where(...)
verifySelectCredits(r, dbOk) ==
    /\ pay.req[r].at = "select-credits"
    /\ IF dbOk
       THEN pay' = [pay EXCEPT !.req[r].userCredit = pay.credit,
                               !.req[r].at = "write-credits"]
       ELSE pay' = [pay EXCEPT !.req = VerifyEnds(r, 500)]
    /\ UNCHANGED <<DEV_MODE, clientVars, chat, fb, serverVars, passLog, other, notices, nav>>

\* if (!userCredit) insert the row, under credits_user_id_unique;
\* else update it to the balance read before plus totalCredit
verifyWriteCredits(r, dbOk) ==
    /\ pay.req[r].at = "write-credits"
    /\ LET call == pay.req[r]
           row == IF ~call.userCredit.present
                  THEN [present |-> TRUE, balance |-> call.totalCredit,
                        totalCharged |-> call.totalCredit]
                  ELSE [present |-> TRUE,
                        balance |-> call.userCredit.balance + call.totalCredit,
                        totalCharged |-> call.userCredit.totalCharged + call.totalCredit]
           unique == call.userCredit.present \/ ~pay.credit.present
       IN IF dbOk /\ unique
          THEN pay' = [pay EXCEPT !.credit = row,
                                  !.req[r].userCredit = row,
                                  !.req[r].wrote = TRUE,
                                  !.req[r].at = "insert-transaction"]
          ELSE pay' = [pay EXCEPT !.req = VerifyEnds(r, 500)]
    /\ UNCHANGED <<DEV_MODE, clientVars, chat, fb, serverVars, passLog, other, notices, nav>>

\* await db.insert(creditTransactions).values({...}), then the 200 answer
verifyInsertTransaction(r, dbOk) ==
    /\ pay.req[r].at = "insert-transaction"
    /\ IF dbOk
       THEN pay' = [pay EXCEPT
                        !.transactions = @ \cup {[paymentId |-> r,
                                                  amount |-> pay.req[r].totalCredit,
                                                  balance |-> pay.req[r].userCredit.balance]},
                        !.req = VerifyEnds(r, 200)]
       ELSE pay' = [pay EXCEPT !.req = VerifyEnds(r, 500)]
    /\ UNCHANGED <<DEV_MODE, clientVars, chat, fb, serverVars, passLog, other, notices, nav>>

NextPayments ==
    \/ \E r \in VerifyCalls, paymentId \in PaymentIds, totalCredit \in TotalCredits,
          portone \in PortOneResults :
           verifyRequest(r, paymentId, totalCredit, portone)
    \/ \E r \in VerifyCalls, dbOk \in BOOLEAN : verifyInsertPayment(r, dbOk)
    \/ \E r \in VerifyCalls, dbOk \in BOOLEAN : verifySelectCredits(r, dbOk)
    \/ \E r \in VerifyCalls, dbOk \in BOOLEAN : verifyWriteCredits(r, dbOk)
    \/ \E r \in VerifyCalls, dbOk \in BOOLEAN : verifyInsertTransaction(r, dbOk)

InitPayments ==
    /\ InitDrafting
    /\ ~DEV_MODE
    /\ credits.balance = 0
    /\ \E row \in {NoCreditRow, ExistingCreditRow} :
           pay = [PayInit EXCEPT !.credit = row, !.opening = row]

SpecPayments == InitPayments /\ [][NextPayments]_vars

(***************************************************************************)
(* MyPage and ChargePage check the session in the browser: useSession      *)
(* starts as 'loading' and settles to 'authenticated' (with a session) or  *)
(* 'unauthenticated' (session null); an effect pushes the login page.      *)
(***************************************************************************)
PageViewNoSessionCheck(n) ==
    IF n.path \notin ProtectedPages THEN "public"
    ELSE IF n.status = "loading" THEN "spinner"
    ELSE "content"

\* what the page renders: the spinner while loading, null without a
\* session, its content otherwise
PageView(n) ==
    IF n.path \notin ProtectedPages THEN "public"
    ELSE IF n.status = "loading" THEN "spinner"
    ELSE IF n.status # "authenticated" THEN "blank"
    ELSE "content"

\* router.push('/login?callbackUrl=/mypage'), router.push('/login?callbackUrl=/charge')
LoginRedirect(path) ==
    CASE path = "/mypage" -> [path |-> "/login", callbackUrl |-> "/mypage"]
      [] path = "/charge" -> [path |-> "/login", callbackUrl |-> "/charge"]

\* searchParams?.get('callbackUrl') || '/'
LoginCallbackUrl(n) == IF n.callbackUrl = Null THEN "/" ELSE n.callbackUrl

\* the visitor opens a page by its address
goto(v, path) ==
    /\ nav' = [nav EXCEPT ![v].path = path, ![v].status = "loading",
                          ![v].callbackUrl = Null]
    /\ UNCHANGED <<DEV_MODE, clientVars, chat, fb, serverVars, passLog, other, notices, pay>>

\* useSession settles
useSessionSettles(v) ==
    /\ nav[v].status = "loading"
    /\ nav' = [nav EXCEPT ![v].status =
                   IF nav[v].loggedIn THEN "authenticated" ELSE "unauthenticated"]
    /\ UNCHANGED <<DEV_MODE, clientVars, chat, fb, serverVars, passLog, other, notices, pay>>

\* useEffect(() => { if (status === 'unauthenticated') router.push(...) })
useEffectLoginCheck(v) ==
    /\ nav[v].path \in ProtectedPages
    /\ nav[v].status = "unauthenticated"
    /\ nav' = [nav EXCEPT ![v].path = LoginRedirect(nav[v].path).path,
                          ![v].callbackUrl = LoginRedirect(nav[v].path).callbackUrl]
    /\ UNCHANGED <<DEV_MODE, clientVars, chat, fb, serverVars, passLog, other, notices, pay>>

\* handleCredentialsLogin of the login page: signIn('credentials'), then
\* router.push(callbackUrl) unless it reported an error
handleCredentialsLogin(v, ok) ==
    /\ nav[v].path = "/login"
    /\ IF ok
       THEN nav' = [nav EXCEPT ![v].loggedIn = TRUE,
                               ![v].path = LoginCallbackUrl(nav[v]),
                               ![v].callbackUrl = Null,
                               ![v].status = "loading"]
       ELSE UNCHANGED nav
    /\ UNCHANGED <<DEV_MODE, clientVars, chat, fb, serverVars, passLog, other, notices, pay>>

\* handleSignOut of the layout: signOut({redirect: false}); router.push('/login')
handleSignOut(v) ==
    /\ nav[v].status = "authenticated"
    /\ nav' = [nav EXCEPT ![v].loggedIn = FALSE, ![v].status = "unauthenticated",
                          ![v].path = "/login", ![v].callbackUrl = Null]
    /\ UNCHANGED <<DEV_MODE, clientVars, chat, fb, serverVars, passLog, other, notices, pay>>

NextPages ==
    \/ \E v \in Visitors, path \in Pages : goto(v, path)
    \/ \E v \in Visitors : useSessionSettles(v)
    \/ \E v \in Visitors : useEffectLoginCheck(v)
    \/ \E v \in Visitors, ok \in BOOLEAN : handleCredentialsLogin(v, ok)
    \/ \E v \in Visitors : handleSignOut(v)

InitPages == Init /\ ~DEV_MODE /\ credits.balance = 0

SpecPages == InitPages /\ [][NextPages]_vars

(***************************************************************************)
(* The composition pass alone: a session whose profile collection has just *)
(* opened, the backend answering compose-sync with any of the documents    *)
(* the route looks for.                                                    *)
(***************************************************************************)
BackendDocuments ==
    IF pc.op = "compose"
    THEN SUBSET {getStylesForTier(selectedTier)[pc.i], "upgraded"}
    ELSE {{}}

InitCompose == \E t \in Tier : ProfileCollectionOpens(t)

NextCompose ==
    \/ \E resp \in SessionResponses(chat.collected) : profileChatTurn(resp)
    \/ completeProfile
    \/ \E outcome \in {"ok", "failed"}, documents \in BackendDocuments :
           composeResponse(outcome, documents)
    \/ saveApplicationsToDb
    \/ \E s \in AllStyles : handleStyleSelect(s)
    \/ handleFinalize

SpecCompose == InitCompose /\ [][NextCompose]_vars

(***************************************************************************)
(* Properties.                                                             *)
(***************************************************************************)
\* the phase a step of the component belongs to, in the order of the flow
PhaseRank(s) ==
    CASE s = "tier-select" -> 0
      [] s = "payment-processing" -> 1
      [] s = "writing-analysis-loading" -> 2
      [] s \in {"task-selection", "company-info"} -> 3
      [] s = "generating" -> 4
      [] s = "feedback" -> 5
      [] s = "completed" -> 6

\* the steps the user takes to go back: the onClose of a chatbot
UserRestart == closeTaskSelection \/ closeProfileCollection \/ closeFeedback

\* C2: the phase of a session never moves backwards, except by a restart the
\* user asks for.
PhasesOnlyForward == [][PhaseRank(step') >= PhaseRank(step) \/ UserRestart]_vars

\* C3: whenever the session is composing, the profile handed over has at
\* least 60% of the required fields collected.
DraftingNeedsSixtyPercent ==
    step = "generating" =>
        /\ companyInfo.present
        /\ 100 * Cardinality(CollectedRequiredFields(companyInfo.profile))
              >= 60 * Len(requiredFields)

\* the profile is handed over with exactly three of the five fields
DraftingAtSixtyPercent ==
    /\ step = "generating"
    /\ pc.op = "compose"
    /\ Cardinality(CollectedRequiredFields(companyInfo.profile)) = 3

\* C4: while the profile is being collected, a turn never lowers the
\* completion ratio, whatever the extraction model answers.
CompletionNeverDecreases ==
    [][(ProfileCollectionShown /\ ProfileCollectionShown')
          => CompletionPercentage(chat'.collected) >= CompletionPercentage(chat.collected)]_vars

\* C5: while the profile is being collected, a field that holds a value keeps
\* that value across every turn.
MergeKeepsPopulatedFields ==
    [][(ProfileCollectionShown /\ ProfileCollectionShown')
          => \A f \in CollectedRequiredFields(chat.collected) :
                chat'.collected[f] = chat.collected[f]]_vars

\* C6: when a composition pass has ended and some style of it succeeded, the
\* drafts of exactly the succeeded styles are kept and the session is past
\* profile collection, on its way to feedback.
PartialFailureKeepsDrafts ==
    (passLog.ended /\ passLog.ok # {}) =>
        /\ StylesOf(applications) = passLog.ok
        /\ step \in {"generating", "feedback", "completed"}

\* the feedback chatbot's ledger is open: drafts exist and have been saved
RevisionsOpen == Len(applications) > 0 /\ pc.op # "save"

\* C8: the revision allotment is never negative.
AllotmentNonNegative == fb.remaining >= 0

\* every revision of a standard session has been consumed and delivered
AllotmentExhausted ==
    /\ step = "feedback"
    /\ selectedTier = "standard"
    /\ fb.remaining = 0
    /\ fb.done = 3

ChargedTotal == SumOver([t \in Tier |-> txLog[t] * getTierPrice(t)], Tier)

\* C1: the session is composing, and the compose route has generated for a
\* tier, only after a payment of that tier was confirmed.
PaymentBeforeComposing ==
    /\ (step = "generating" \/ pc.op = "compose") => txLog[selectedTier] > 0
    /\ \A t \in orders : txLog[t] > 0

TierAllotment(tier) ==
    CASE tier = "basic" -> 1
      [] tier = "standard" -> 3
      [] tier = "premium" -> 7

\* C12: the allotment of a paid session is the fixed count of its tier
\* (1, 3, 7), and every report of a tier's allotment gives that same count.
AllotmentIsTierCount ==
    /\ RevisionsOpen =>
          fb.remaining + fb.done + InFlight(fb) = TierAllotment(selectedTier)
    /\ \A n \in notices : n.credits = TierAllotment(n.tier)

\* the number of deduction transactions of the account
ChargeCount == SumOver(txLog, Tier)

\* C13: a session is charged the price of its tier exactly once: the account
\* of a session that is past payment has been debited that price, and never
\* carries a second deduction.
ChargedExactlyOnce ==
    /\ ChargeCount <= 1
    /\ (~DEV_MODE /\ PhaseRank(step) >= 2)
          => credits.totalUsed = getTierPrice(selectedTier)

StyleCount(tier) ==
    CASE tier = "basic" -> 1
      [] tier = "standard" -> 3
      [] tier = "premium" -> 5

\* C15: once a composition pass has succeeded, the session holds as many
\* drafts as its tier has styles (1, 3, 5), one per style.
DraftCountIsStyleCount ==
    Len(applications) > 0 =>
        /\ Len(applications) = StyleCount(selectedTier)
        /\ Cardinality(StylesOf(applications)) = StyleCount(selectedTier)

\* a premium session in feedback with its five drafts
PremiumDraftsComposed ==
    /\ step = "feedback"
    /\ selectedTier = "premium"
    /\ passLog.ended
    /\ Len(applications) = 5

\* C16: the step that ends a composition pass in which no style succeeded
\* leaves the session composing, for a retry: not in feedback, and not in
\* any earlier phase.
AllFailedStaysComposing ==
    [][(pc.op = "compose" /\ passLog'.ended /\ passLog'.ok = {})
          => step' = "generating"]_vars

\* what a session holds, the draft on display (selectedStyle) left aside
SessionState ==
    <<step, selectedTier, writingAnalysis, selectedTask, companyInfo,
      applications, chat, fb, pc, credits, txLog, orders>>

AnalysisFailureStaysAnalyzing ==
    [][writingAnalysisResponse(FALSE, NoAnalysis)
          => (error' = "analysis" /\ step' = "writing-analysis-loading")]_vars

\* C21: after a turn that leaves the profile below 60%, a next-question
\* field the route returned is a required field the profile still misses:
\* a field that is already filled is not asked again.
NextQuestionIsMissingField ==
    (ProfileCollectionShown /\ chat.status = 200 /\ ~chat.complete /\ chat.next # Null)
        => chat.next \in RequiredFieldSet \ CollectedRequiredFields(chat.collected)

\* C22: the session is in the task-selection step, its chatbot shown, only
\* when the analysis lists at least two task tracks and no track has been chosen yet; with
\* fewer tracks it is never in that step.
TrackSelectionOnlyWithTracks ==
    TaskSelectionShown => (writingAnalysis.tasks >= 2 /\ selectedTask = NoTask)

\* C23: while a composition pass waits for a per-style generation call, the
\* call carries a timeout (an abort signal) at the component and at the
\* route, so the wait is bounded.
ComposeCallsCarryTimeout ==
    (step = "generating" /\ pc.op = "compose")
        => ("signal" \in ComposeFetchOptions /\ "signal" \in ComposeSyncFetchOptions)

\* C24: for any paymentId, of all the calls of /api/payments/verify made with
\* it, in any interleaving, at most one has added credits to the balance.
CreditedOncePerPayment ==
    \A r1, r2 \in VerifyCalls :
        (r1 # r2 /\ pay.req[r1].at # "idle" /\ pay.req[r2].at # "idle"
                 /\ pay.req[r1].paymentId = pay.req[r2].paymentId)
            => ~(pay.req[r1].wrote /\ pay.req[r2].wrote)

\* two calls with one paymentId have ended, the first with the credits added
\* and the second refused
SecondVerifyRefused ==
    /\ pay.req[1].at = "done" /\ pay.req[1].status = 200 /\ pay.req[1].wrote
    /\ pay.req[2].at = "done" /\ pay.req[2].status = 500 /\ ~pay.req[2].wrote
    /\ pay.req[1].paymentId = pay.req[2].paymentId
    /\ pay.credit.balance = pay.opening.balance + pay.req[1].totalCredit

\* C25: once a call of /api/payments/verify has ended, its payment record,
\* its update of the credit balance and its credit transaction record are
\* either all persisted or none of them is.
VerifyAllOrNothing ==
    \A r \in VerifyCalls :
        pay.req[r].at = "done" =>
            LET paymentSaved == \E row \in pay.payments : row.id = r
                transactionSaved == \E row \in pay.transactions : row.paymentId = r
            IN /\ paymentSaved <=> pay.req[r].wrote
               /\ pay.req[r].wrote <=> transactionSaved

\* the calls that answered 200
VerifiedCalls == {r \in VerifyCalls : pay.req[r].at = "done" /\ pay.req[r].status = 200}

\* C29: when every call made has ended and each one either answered 200 or
\* wrote nothing to the credits row, the balance and totalCharged have grown
\* by the sum of the totalCredit of the calls that answered 200, and each
\* credit transaction row holds the balance its own call wrote.
NoTopUpLost ==
    (\A r \in VerifyCalls :
        \/ pay.req[r].at = "idle"
        \/ pay.req[r].at = "done" /\ (pay.req[r].status = 200 \/ ~pay.req[r].wrote))
    => LET charged == SumOver([r \in VerifyCalls |-> pay.req[r].totalCredit], VerifiedCalls)
       IN /\ pay.credit.balance = pay.opening.balance + charged
          /\ pay.credit.totalCharged = pay.opening.totalCharged + charged
          /\ \A row \in pay.transactions :
                 row.balance = pay.req[row.paymentId].userCredit.balance

\* C26: a visitor without a session never sees the content of /mypage or
\* /charge; the login check of the page sends the visitor to /login with a
\* callbackUrl naming that page, and it is pending whenever such a visitor
\* is on the page with the session settled.
ProtectedPagesRedirect ==
    /\ [](\A v \in Visitors :
            /\ ~nav[v].loggedIn => PageView(nav[v]) # "content"
            /\ (nav[v].path \in ProtectedPages /\ ~nav[v].loggedIn
                    /\ nav[v].status # "loading")
                   => ENABLED useEffectLoginCheck(v))
    /\ [][\A v \in Visitors :
            useEffectLoginCheck(v)
                => (nav'[v].path = "/login" /\ nav'[v].callbackUrl = nav[v].path)]_vars

\* a visitor without a session opened /charge and is on the login page with
\* callbackUrl=/charge, while another one waits for the redirect on /mypage
RedirectedFromCharge ==
    /\ ~nav[1].loggedIn /\ nav[1].path = "/login" /\ nav[1].callbackUrl = "/charge"
    /\ ~nav[2].loggedIn /\ nav[2].path = "/mypage" /\ PageView(nav[2]) = "blank"

\* C27: when the analysis fails after the deduction for the tier succeeded,
\* so that the session reaches neither task selection nor profile
\* collection for the purchase, the price of the tier is returned to the
\* balance.
FailedPurchaseRefunded ==
    [][(~DEV_MODE /\ writingAnalysisResponse(FALSE, NoAnalysis))
          => credits'.balance = credits.balance + getTierPrice(selectedTier)]_vars

\* C28: in a waiting step an operation that will change the step is in
\* flight, and in a step whose view needs data the view is rendered and
\* offers the user its actions.
DraftingNeverStuck ==
    /\ step \in {"payment-processing", "writing-analysis-loading", "generating"}
           => pc.op # Idle.op
    /\ step = "task-selection" => TaskSelectionShown
    /\ step = "company-info" => ProfileCollectionShown
    /\ step = "feedback" => FeedbackShown

\* C30: each draft a session holds under style S has the content of the
\* document of style S, or no content, never that of another style.
DraftHoldsItsStyle ==
    \A i \in 1..Len(applications) :
        applications[i].content.doc \in {applications[i].style, Null}

====
